---- MODULE Spec2Model ----
(***************************************************************************)
(* Model of three pieces of wicked:                                        *)
(*   client/reachable.c  the reachability requirement of the ifworker FSM  *)
(*   src/sysfs.c         ni_sysfs_bonding_set_list_attr                    *)
(*   src/extension.c     __ni_extension_run, ni_extension_active           *)
(* Each piece has its own next-state relation and specification; the       *)
(* variables of the other pieces stay unchanged under it.                  *)
(***************************************************************************)
EXTENDS Integers, Sequences, FiniteSets, TLC

VARIABLES
    \* ---- client/reachable.c
    event_seq,        \* fsm->event_seq
    last_event_seq,   \* fsm->last_event_seq[]
    req_event_seq,    \* req->event_seq
    address_valid,    \* check->address_valid
    address,          \* check->address: 0 = zeroed, n = resolved under resolver generation n
    dns_gen,          \* generation of the resolver configuration (environment)
    last_call,        \* what the latest call of ni_fsm_require_check_reachable did
    prev_call,        \* what the call before it did
    since,            \* event kinds seen since the latest call
    recheck,          \* "never": no call got past the skip test yet; "settled": one did
                      \* and no address-acquired event came since; "due": one came
    user_data,        \* req->user_data: "check" or "NULL"
    destroys,         \* calls of ni_ifworker_reachability_check_destroy so far
    hostname_frees,   \* times ni_string_free released check->hostname
    check_frees,      \* times free released the check
    \* ---- src/sysfs.c
    backend,          \* the attribute list the kernel holds under pathbuf
    sys_state,        \* "idle" before the first call, "done" after a call returned,
                      \* "crashed" when the process died in a call
    sys_list,         \* list: the desired list the caller is configured with
    sys_read_ok,      \* __ni_sysfs_read_list(pathbuf, &current) >= 0 in the latest call
    sys_current,      \* current
    sys_delete,       \* delete
    sys_add,          \* add
    sys_unchanged,    \* unchanged
    sys_writes,       \* the __ni_sysfs_printf calls the latest call issued, in order
    sys_rv,           \* what the latest call returned
    sys_failed,       \* the number of the write of the latest call that failed, 0 if none
    ni_debug,         \* ni_debug & NI_TRACE_IFCONFIG is set
    sys_trace,        \* the element reads of the ni_trace lines of the latest call
    sys_prev,         \* the call before it: its result, and whether it applied a write
    \* ---- src/extension.c
    ex_cfg,           \* the extension: which templates are configured, environment.count
    sigchld,          \* the process's SIGCHLD disposition
    run_pc,           \* "env", "wait" (in the waitpid loop), "done" (just returned), "idle"
    run_op,           \* command_name of the latest call: "start" or "stop"
    run_sig0,         \* the SIGCHLD disposition when the latest call was entered
    run_envres,       \* results of the environment templates evaluated, in order
    run_cmdres,       \* result of evaluating the command template, as <<r>>; <<>> if not
    run_env,          \* env: the indices of the templates whose value was appended
    run_evals,        \* xpath_format_eval calls of the latest call
    run_forked,       \* fork() was called
    run_forks,        \* processes the latest call created
    child,            \* "none", "running" or "reaped"
    run_status,       \* the wait status the loop left with
    run_loops,        \* iterations of the wait loop that went round again
    run_again,        \* what the latest waitpid reported: "EINTR", "other pid", "stopped"
                      \* (the loop went round again), "error" or "terminated" (it ended)
    run_probes,       \* ni_extension_active calls of the latest call
    run_proberes,     \* result of evaluating the pid file template, as <<r>>; <<>> if not
    run_active,       \* is_active
    run_rv,           \* what the latest call returned
    \* src/extension.c, the registry
    ext_list,         \* the list behind *list, head first
    ext_made,         \* ni_extension_new calls so far
    ext_find          \* the latest ni_extension_list_find call and what it returned

reach_vars == <<event_seq, last_event_seq, req_event_seq, address_valid, address,
                dns_gen, last_call, prev_call, since, recheck, user_data, destroys,
                hostname_frees, check_frees>>

sysfs_vars == <<backend, sys_state, sys_list, sys_read_ok, sys_current, sys_delete,
                sys_add, sys_unchanged, sys_writes, sys_rv, sys_failed, ni_debug,
                sys_trace, sys_prev>>

ext_vars == <<ex_cfg, sigchld, run_pc, run_op, run_sig0, run_envres, run_cmdres,
              run_env, run_evals, run_forked, run_forks, child, run_status, run_loops,
              run_again, run_probes, run_proberes, run_active, run_rv>>

reg_vars == <<ext_list, ext_made, ext_find>>

vars == <<reach_vars, sysfs_vars, ext_vars, reg_vars>>

(***************************************************************************)
(* client/reachable.c                                                      *)
(***************************************************************************)

\* Bound on the global event sequence counter.
MaxSeq == 4

NI_EVENT_ADDRESS_ACQUIRED == "ADDRESS_ACQUIRED"
NI_EVENT_RESOLVER_UPDATED == "RESOLVER_UPDATED"
NI_EVENT_OTHER == "OTHER"

EventKinds == {NI_EVENT_ADDRESS_ACQUIRED, NI_EVENT_RESOLVER_UPDATED, NI_EVENT_OTHER}

\* A record of one call of ni_fsm_require_check_reachable: whether it took the SKIP
\* return, whether it cleared the validity flag (line 50), whether it called the
\* resolver and the prober, what it returned, fsm->event_seq and
\* fsm->last_event_seq[NI_EVENT_ADDRESS_ACQUIRED] at the call, the event kinds seen
\* since the call before it, and the address the prober was handed; what the
\* resolver and the prober answered when they were called; the marker, the validity
\* flag and the resolver generation as the call found them, and whether an
\* address-acquired event had come since the last call that got past the skip test.
CallRecord(skipped, invalidated, resolver, prober, ret, events, addr, resolved, reachable) ==
    [none |-> FALSE, skipped |-> skipped, invalidated |-> invalidated,
     resolver |-> resolver, prober |-> prober, ret |-> ret, seq |-> event_seq,
     addr_seq |-> last_event_seq[NI_EVENT_ADDRESS_ACQUIRED],
     events |-> events, addr |-> addr,
     res_ok |-> resolver /\ resolved, probe_ok |-> prober /\ reachable,
     marker |-> req_event_seq, valid |-> address_valid, gen |-> dns_gen,
     due |-> recheck = "due"]

\* No call yet.
NoCall ==
    [none |-> TRUE, skipped |-> FALSE, invalidated |-> FALSE, resolver |-> FALSE,
     prober |-> FALSE, ret |-> FALSE, seq |-> 0, addr_seq |-> 0, events |-> {},
     addr |-> 0, res_ok |-> FALSE, probe_ok |-> FALSE, marker |-> 0, valid |-> FALSE,
     gen |-> 0, due |-> FALSE]

\* ni_reachability_check_new: calloc'ed check, fresh requirement, fsm counters at zero.
ReachInit ==
    /\ event_seq = 0
    /\ last_event_seq = [k \in EventKinds |-> 0]
    /\ req_event_seq = 0
    /\ address_valid = FALSE
    /\ address = 0
    /\ dns_gen = 1
    /\ last_call = NoCall
    /\ prev_call = NoCall
    /\ since = {}
    /\ recheck = "never"
    /\ user_data = "check"
    /\ destroys = 0
    /\ hostname_frees = 0
    /\ check_frees = 0

\* The event system: every event advances the global sequence and stamps its kind.
FsmEvent(kind) ==
    /\ event_seq < MaxSeq
    /\ event_seq' = event_seq + 1
    /\ last_event_seq' = [last_event_seq EXCEPT ![kind] = event_seq + 1]
    /\ dns_gen' = IF kind = NI_EVENT_RESOLVER_UPDATED THEN dns_gen + 1 ELSE dns_gen
    /\ since' = since \cup {kind}
    /\ recheck' = IF kind = NI_EVENT_ADDRESS_ACQUIRED /\ recheck = "settled"
                  THEN "due" ELSE recheck
    /\ UNCHANGED <<req_event_seq, address_valid, address, last_call, prev_call>>
    /\ UNCHANGED <<user_data, destroys, hostname_frees, check_frees>>
    /\ UNCHANGED <<sysfs_vars, ext_vars, reg_vars>>

\* Mutant of SkipCheck: skips whenever the marker is not older than the last
\* address-acquired event.
SkipCheck_NotOlder == req_event_seq >= last_event_seq[NI_EVENT_ADDRESS_ACQUIRED]

\* Mutant of SkipCheck: the marker is compared with the last resolver-updated event.
SkipCheck_ResolverSeq == req_event_seq = last_event_seq[NI_EVENT_RESOLVER_UPDATED]

\* reachable.c:44  the skip test
SkipCheck == req_event_seq = last_event_seq[NI_EVENT_ADDRESS_ACQUIRED]

\* Mutant of ResolverUpdatedSince: the resolver update is never noticed.
ResolverUpdatedSince_Never == FALSE

\* reachable.c:49  the resolver was updated after the requirement's marker
ResolverUpdatedSince == req_event_seq < last_event_seq[NI_EVENT_RESOLVER_UPDATED]

\* reachable.c:53  the validity flag as the resolve test reads it
ValidAfterInvalidate == IF ResolverUpdatedSince THEN FALSE ELSE address_valid

\* Mutant of MarkerAfterCall: the marker takes the sequence of the last
\* address-acquired event.
MarkerAfterCall_AddressSeq == last_event_seq[NI_EVENT_ADDRESS_ACQUIRED]

\* reachable.c:51  req->event_seq = fsm->event_seq
MarkerAfterCall == event_seq

\* Mutant of ResolutionFailed: the result of the resolver is not looked at.
ResolutionFailed_Ignored(resolved) == FALSE

\* reachable.c:53-54  !check->address_valid && ni_resolve_hostname_timed(...) <= 0
ResolutionFailed(resolved) == ~ValidAfterInvalidate /\ ~resolved

\* ni_fsm_require_check_reachable, one whole call, on a requirement that still has
\* its check (the fsm evaluates no requirement it has destroyed).
\* resolved: ni_resolve_hostname_timed(...) > 0; reachable: ni_host_is_reachable(...) > 0
CheckReachable(resolved, reachable) ==
    LET skip   == SkipCheck
        inval  == ResolverUpdatedSince
        valid0 == ValidAfterInvalidate
        callRes == ~valid0
        resFail == ResolutionFailed(resolved)
        addr1  == IF callRes /\ resolved THEN dns_gen ELSE address
    IN
    /\ user_data = "check"
    /\ prev_call' = last_call
    /\ since' = {}
    /\ UNCHANGED <<event_seq, last_event_seq, dns_gen>>
    /\ UNCHANGED <<user_data, destroys, hostname_frees, check_frees>>
    /\ UNCHANGED <<sysfs_vars, ext_vars, reg_vars>>
    /\ IF skip
       THEN /\ UNCHANGED <<req_event_seq, address_valid, address, recheck>>
            /\ last_call' = CallRecord(TRUE, FALSE, FALSE, FALSE, FALSE,
                                       since, address, FALSE, FALSE)
       ELSE /\ req_event_seq' = MarkerAfterCall
            /\ recheck' = "settled"
            /\ IF resFail
               THEN /\ address_valid' = FALSE
                    /\ address' = address
                    /\ last_call' = CallRecord(FALSE, inval, TRUE, FALSE, FALSE,
                                               since, address, resolved, FALSE)
               ELSE /\ address_valid' = TRUE
                    /\ address' = addr1
                    /\ last_call' = CallRecord(FALSE, inval, callRes, TRUE, reachable,
                                               since, addr1, resolved, reachable)

MaxDestroy == 2

\* reachable.c:75  check != NULL
HasCheck(ud) == ud # "NULL"

\* Mutant of UserDataAfterDestroy: the reference is left as it was.
UserDataAfterDestroy_Kept(ud) == ud

\* reachable.c:80  req->user_data = NULL
UserDataAfterDestroy(ud) == "NULL"

\* reachable.c:70-81  ni_ifworker_reachability_check_destroy
CheckDestroy ==
    /\ destroys < MaxDestroy
    /\ destroys' = destroys + 1
    /\ hostname_frees' = IF HasCheck(user_data) THEN hostname_frees + 1
                         ELSE hostname_frees
    /\ check_frees' = IF HasCheck(user_data) THEN check_frees + 1 ELSE check_frees
    /\ user_data' = UserDataAfterDestroy(user_data)
    /\ UNCHANGED <<event_seq, last_event_seq, req_event_seq, address_valid, address,
                   dns_gen, last_call, prev_call, since, recheck>>
    /\ UNCHANGED <<sysfs_vars, ext_vars, reg_vars>>

ReachNext ==
    \/ \E kind \in EventKinds : FsmEvent(kind)
    \/ \E resolved \in BOOLEAN, reachable \in BOOLEAN : CheckReachable(resolved, reachable)
    \/ CheckDestroy

(***************************************************************************)
(* src/sysfs.c: ni_sysfs_bonding_set_list_attr                             *)
(***************************************************************************)

\* Bound on the length of the desired list and of the initial backend list.
MaxLen == 3

Values == {"eth0", "eth1", "eth2"}

Range(s) == {s[i] : i \in 1..Len(s)}

SeqsUpTo(S, n) == UNION {[1..k -> S] : k \in 0..n}

NoDup(s) == \A i, j \in 1..Len(s) : i # j => s[i] # s[j]

\* The desired lists a caller may pass.
Lists == SeqsUpTo(Values, MaxLen)

\* The lists the kernel may hold at the start: no value twice.
BackendLists == {s \in Lists : NoDup(s)}

\* ni_string_array_comm(a, b, uniq_a, uniq_b, common): the values unique to the
\* first array, unique to the second, and common to both.
ni_string_array_comm(a, b) ==
    LET NotInB(x) == x \notin Range(b)
        NotInA(x) == x \notin Range(a)
        InB(x) == x \in Range(b)
    IN [uniq_a |-> SelectSeq(a, NotInB),
        uniq_b |-> SelectSeq(b, NotInA),
        common |-> SelectSeq(a, InB)]

\* Mutant of Partition: delete and add handed over in the wrong order.
Partition_Swapped(current, list) ==
    LET c == ni_string_array_comm(current, list)
    IN [delete |-> c.uniq_b, add |-> c.uniq_a, unchanged |-> c.common]

\* Mutant of Partition: &add handed over where &unchanged belongs.
Partition_CommonIntoAdd(current, list) ==
    LET c == ni_string_array_comm(current, list)
    IN [delete |-> c.uniq_a, add |-> c.uniq_b \o c.common, unchanged |-> <<>>]

\* sysfs.c:181-188  the three arrays after the call of ni_string_array_comm
Partition(current, list) ==
    LET c == ni_string_array_comm(current, list)
    IN [delete |-> c.uniq_a, add |-> c.uniq_b, unchanged |-> c.common]

\* sysfs.c:190  nothing to add and nothing to delete
NothingToDo(p) == Len(p.add) = 0 /\ Len(p.delete) = 0

\* sysfs.c:206-213  one "-%s\n" write per element of delete, in array order
DeleteLoop(delete) == [i \in 1..Len(delete) |-> [op |-> "-", val |-> delete[i]]]

\* Mutant of AddLoop: the loop stops one element early.
AddLoop_OffByOne(add) ==
    [i \in 1..(IF Len(add) = 0 THEN 0 ELSE Len(add) - 1) |-> [op |-> "+", val |-> add[i]]]

\* sysfs.c:215-222  one "+%s\n" write per element of add, in array order
AddLoop(add) == [i \in 1..Len(add) |-> [op |-> "+", val |-> add[i]]]

\* Mutant of WritePlan: the add loop runs before the delete loop.
WritePlan_AddFirst(p) == AddLoop(p.add) \o DeleteLoop(p.delete)

\* sysfs.c:206-222  the writes of a call in which none fails
WritePlan(p) == DeleteLoop(p.delete) \o AddLoop(p.add)

\* The kernel's reaction to one write that succeeded: "-v" takes v off the list,
\* "+v" puts v on it.
BackendWrite(b, w) ==
    LET Other(x) == x # w.val
    IN IF w.op = "-" THEN SelectSeq(b, Other)
       ELSE IF w.val \in Range(b) THEN b ELSE Append(b, w.val)

RECURSIVE BackendAfter(_, _)
BackendAfter(b, ws) ==
    IF ws = <<>> THEN b ELSE BackendAfter(BackendWrite(b, Head(ws)), Tail(ws))

SysInit ==
    /\ backend \in BackendLists
    /\ sys_state = "idle"
    /\ sys_list \in Lists
    /\ sys_read_ok = FALSE
    /\ sys_current = <<>>
    /\ sys_delete = <<>>
    /\ sys_add = <<>>
    /\ sys_unchanged = <<>>
    /\ sys_writes = <<>>
    /\ sys_rv = 0
    /\ sys_failed = 0
    /\ ni_debug \in BOOLEAN
    /\ sys_trace = <<>>
    /\ sys_prev = [state |-> "idle", rv |-> 0, applied |-> FALSE]

\* What the latest call leaves behind for the next one to look back at.
SysLatest ==
    [state |-> sys_state, rv |-> sys_rv,
     applied |-> IF sys_rv = 0 THEN Len(sys_writes) > 0 ELSE Len(sys_writes) > 1]

\* What a read past the end of a string array may find there.
StrayValues == Values \cup {"(null)"}

\* One element read of a ni_trace line: the label, the array read, the place read
\* (from 1), the count of that array, and the string found; stray is what a read
\* past the count finds.
TraceRead(label, name, array, i, stray) ==
    [label |-> label, array |-> name, index |-> i, count |-> Len(array),
     val |-> IF i <= Len(array) THEN array[i] ELSE stray]

\* sysfs.c:198-203  the three logging loops: delete.data[i] for i < delete.count,
\* add.data[i] for i < add.count, and add.data[i] for i < unchanged.count
TraceLoops(p, stray) ==
    [i \in 1..Len(p.delete) |-> TraceRead("remove", "delete", p.delete, i, stray)]
    \o [i \in 1..Len(p.add) |-> TraceRead("add", "add", p.add, i, stray)]
    \o [i \in 1..Len(p.unchanged) |-> TraceRead("leave", "add", p.add, i, stray)]

\* Mutant of IssuedWrites: a failed write does not end the loops.
IssuedWrites_NoAbort(plan, failAt) == plan

\* sysfs.c:206-222  both loops leave through goto done at the first write whose
\* __ni_sysfs_printf returns < 0: the writes up to and with that one are issued.
IssuedWrites(plan, failAt) ==
    IF failAt = 0 THEN plan ELSE SubSeq(plan, 1, failAt)

\* sysfs.c:202-203  the "leave" loop reads add.data[i] at a place past add.count
ReadsPastEnd(p) == Len(p.unchanged) > Len(p.add)

\* The reads of the logging loops up to the first one past the end of its array.
UpToFault(reads) ==
    LET Bad(k) == reads[k].index > reads[k].count
        first == CHOOSE k \in 1..Len(reads) :
                     Bad(k) /\ \A j \in 1..(k - 1) : ~Bad(j)
    IN SubSeq(reads, 1, first)

\* ni_sysfs_bonding_set_list_attr, one whole call.
\* readOk: __ni_sysfs_read_list succeeds; failAt: the number of the write whose
\* __ni_sysfs_printf returns < 0 (0: none does). A failed write leaves the kernel's
\* list as it was. A read past the end of add.data is undefined: it finds some
\* string, or the process dies of it before any write.
SetListAttr(list, readOk, failAt) ==
    LET p == Partition(backend, list)
        plan == WritePlan(p)
        logs == readOk /\ ~NothingToDo(p) /\ ni_debug
        outcomes == IF logs /\ ReadsPastEnd(p)
                    THEN StrayValues \cup {"SIGSEGV"}
                    ELSE {"(null)"}
    IN
    /\ sys_state # "crashed"
    /\ sys_prev' = SysLatest
    /\ sys_list' = list
    /\ sys_read_ok' = readOk
    /\ UNCHANGED ni_debug
    /\ UNCHANGED <<reach_vars, ext_vars, reg_vars>>
    /\ \E stray \in outcomes :
        IF stray = "SIGSEGV"
        THEN /\ failAt = 0
             /\ sys_state' = "crashed"
             /\ sys_trace' = UpToFault(TraceLoops(p, stray))
             /\ sys_current' = backend
             /\ sys_delete' = p.delete
             /\ sys_add' = p.add
             /\ sys_unchanged' = p.unchanged
             /\ sys_writes' = <<>>
             /\ sys_failed' = 0
             /\ UNCHANGED <<sys_rv, backend>>
        ELSE
        /\ sys_state' = "done"
        /\ sys_failed' = IF readOk /\ ~NothingToDo(p) THEN failAt ELSE 0
        /\ sys_trace' = IF logs THEN TraceLoops(p, stray) ELSE <<>>
        /\ IF ~readOk
           THEN /\ failAt = 0
                /\ sys_rv' = -1
                /\ sys_current' = <<>>
                /\ sys_delete' = <<>>
                /\ sys_add' = <<>>
                /\ sys_unchanged' = <<>>
                /\ sys_writes' = <<>>
                /\ backend' = backend
           ELSE /\ sys_current' = backend
                /\ sys_delete' = p.delete
                /\ sys_add' = p.add
                /\ sys_unchanged' = p.unchanged
                /\ IF NothingToDo(p)
                   THEN /\ failAt = 0
                        /\ sys_rv' = 0
                        /\ sys_writes' = <<>>
                        /\ backend' = backend
                   ELSE /\ failAt \in 0..Len(plan)
                        /\ IF failAt = 0
                           THEN /\ sys_rv' = 0
                                /\ sys_writes' = IssuedWrites(plan, failAt)
                                /\ backend' = BackendAfter(backend, plan)
                           ELSE /\ sys_rv' = -1
                                /\ sys_writes' = IssuedWrites(plan, failAt)
                                /\ backend' = BackendAfter(backend,
                                                           SubSeq(plan, 1, failAt - 1))

\* The caller reconciles the kernel's list with its configured list, again and
\* again. A call issues at most one write per element of current and of list.
SysNext ==
    \/ SetListAttr(sys_list, FALSE, 0)
    \/ \E failAt \in 0..(Len(backend) + Len(sys_list)) : SetListAttr(sys_list, TRUE, failAt)

(***************************************************************************)
(* src/extension.c: ni_extension_active, __ni_extension_run                *)
(***************************************************************************)

\* Bound on ex->environment.count.
MaxEnv == 2

\* Bound on the iterations of the wait loop that go round again in one call.
MaxLoops == 2

\* extension.c:106, 143, 156  xpath_format_eval returns false
EvalError == -1

\* What xpath_format_eval gives: EvalError, or result.count (none, one, more than one).
EvalResults == {EvalError, 0, 1, 2}

\* The wait statuses a terminated child leaves.
Statuses == {"exit0", "exit1", "signaled"}

WIFEXITED(status) == status \in {"exit0", "exit1"}

WEXITSTATUS(status) == IF status = "exit0" THEN 0 ELSE 1

ExtInit ==
    /\ ex_cfg \in [start_command : BOOLEAN, stop_command : BOOLEAN,
                   pid_file_path : BOOLEAN, nenv : 0..MaxEnv]
    /\ sigchld \in {"SIG_DFL", "SIG_IGN"}
    /\ run_pc = "idle"
    /\ run_op = "start"
    /\ run_sig0 = sigchld
    /\ run_envres = <<>>
    /\ run_cmdres = <<>>
    /\ run_env = <<>>
    /\ run_evals = 0
    /\ run_forked = FALSE
    /\ run_forks = 0
    /\ child = "none"
    /\ run_status = "none"
    /\ run_loops = 0
    /\ run_again = "none"
    /\ run_probes = 0
    /\ run_proberes = <<>>
    /\ run_active = 0
    /\ run_rv = 0

\* extension.c:239, 248  the template ni_extension_start / ni_extension_stop hands over
CommandSet(op) == IF op = "start" THEN ex_cfg.start_command ELSE ex_cfg.stop_command

\* extension.c:96-117  ni_extension_active: 0 without a pid file template, 0 when the
\* template does not evaluate to exactly one path, else whether the path exists.
ni_extension_active(pidfile, evalRes, exists) ==
    IF ~pidfile THEN 0
    ELSE IF evalRes = EvalError \/ evalRes # 1 THEN 0
    ELSE IF exists THEN 1 ELSE 0

\* Mutant of EnvFails: a template that yields no value fails the call.
EnvFails_NotOne(r) == r = EvalError \/ r # 1

\* extension.c:143  an environment template fails the call
EnvFails(r) == r = EvalError \/ r > 1

\* extension.c:156  the command template fails the call
CommandFails(r) == r = EvalError \/ r # 1

\* Mutant of ClassifyExit: a zero exit status is success whatever the probe says.
ClassifyExit_NoProbe(op, status, pidfile, is_active) ==
    IF ~WIFEXITED(status) THEN -1
    ELSE IF WEXITSTATUS(status) # 0 THEN -1
    ELSE 0

\* Mutant of ClassifyExit: the exit status is not looked at.
ClassifyExit_NoStatus(op, status, pidfile, is_active) ==
    IF ~WIFEXITED(status) THEN -1
    ELSE IF pidfile
    THEN IF op = "start" /\ is_active = 0 THEN -1
         ELSE IF op = "stop" /\ is_active # 0 THEN -1
         ELSE 0
    ELSE 0

\* extension.c:203-223  rv after the wait loop
ClassifyExit(op, status, pidfile, is_active) ==
    IF ~WIFEXITED(status) THEN -1
    ELSE IF WEXITSTATUS(status) # 0 THEN -1
    ELSE IF pidfile
    THEN IF op = "start" /\ is_active = 0 THEN -1
         ELSE IF op = "stop" /\ is_active # 0 THEN -1
         ELSE 0
    ELSE 0

\* extension.c:203-210  the branch that calls ni_extension_active
ProbeQueried(status, pidfile) ==
    WIFEXITED(status) /\ WEXITSTATUS(status) = 0 /\ pidfile

\* Mutant of CommandIsNull: the test for an unset template is missing.
CommandIsNull_Never(op) == FALSE

\* extension.c:136  command == NULL
CommandIsNull(op) == ~CommandSet(op)

\* Between two calls other code of the process sets SIGCHLD to SIG_IGN
\* (extension.c:165-166).
IgnoreSigchld ==
    /\ run_pc \in {"idle", "done"}
    /\ sigchld = "SIG_DFL"
    /\ sigchld' = "SIG_IGN"
    /\ run_pc' = "idle"
    /\ UNCHANGED <<ex_cfg, run_op, run_sig0, run_envres, run_cmdres, run_env,
                   run_evals, run_forked, run_forks, child, run_status, run_loops,
                   run_again, run_probes, run_proberes, run_active, run_rv>>
    /\ UNCHANGED <<reach_vars, sysfs_vars, reg_vars>>

\* What a step of a call before the wait loop leaves alone.
RunFrame ==
    /\ UNCHANGED <<ex_cfg, run_status, run_loops, run_again, run_probes, run_proberes,
                   run_active>>
    /\ UNCHANGED <<reach_vars, sysfs_vars, reg_vars>>

\* goto done before fork() (extension.c:146, 159, 172): the call returns -1.
RunAbort ==
    /\ run_rv' = -1
    /\ run_pc' = "done"
    /\ UNCHANGED <<run_forks, child>>

\* ni_extension_start (op = "start") or ni_extension_stop (op = "stop") enters
\* __ni_extension_run (extension.c:133-139): an unset template returns 0 at once.
RunEnter(op) ==
    /\ run_pc \in {"idle", "done"}
    /\ run_op' = op
    /\ run_sig0' = sigchld
    /\ run_envres' = <<>>
    /\ run_cmdres' = <<>>
    /\ run_env' = <<>>
    /\ run_evals' = 0
    /\ run_forked' = FALSE
    /\ run_forks' = 0
    /\ child' = "none"
    /\ run_status' = "none"
    /\ run_loops' = 0
    /\ run_again' = "none"
    /\ run_probes' = 0
    /\ run_proberes' = <<>>
    /\ run_active' = 0
    /\ IF CommandIsNull(op)
       THEN run_rv' = 0 /\ run_pc' = "done"
       ELSE run_rv' = -1 /\ run_pc' = "env"
    /\ UNCHANGED <<ex_cfg, sigchld>>
    /\ UNCHANGED <<reach_vars, sysfs_vars, reg_vars>>

\* extension.c:142-154  one iteration of the environment loop
\* r: what evaluating template i gives
EnvStep(r) ==
    LET i == Len(run_envres) + 1
    IN
    /\ run_pc = "env"
    /\ i <= ex_cfg.nenv
    /\ run_envres' = Append(run_envres, r)
    /\ run_evals' = run_evals + 1
    /\ IF EnvFails(r)
       THEN /\ RunAbort
            /\ UNCHANGED run_env
       ELSE /\ run_env' = IF r # 0 THEN Append(run_env, i) ELSE run_env
            /\ UNCHANGED <<run_pc, run_rv, run_forks, child>>
    /\ UNCHANGED <<sigchld, run_op, run_sig0, run_cmdres, run_forked>>
    /\ RunFrame

\* extension.c:156-183  the command template, signal(SIGCHLD, SIG_DFL) and fork()
\* cmdRes: what evaluating the command template gives; forkOk: fork() returns a pid
CommandStep(cmdRes, forkOk) ==
    /\ run_pc = "env"
    /\ Len(run_envres) = ex_cfg.nenv
    /\ run_cmdres' = <<cmdRes>>
    /\ run_evals' = run_evals + 1
    /\ IF CommandFails(cmdRes)
       THEN /\ RunAbort
            /\ UNCHANGED <<sigchld, run_forked>>
       ELSE /\ sigchld' = "SIG_DFL"
            /\ run_forked' = TRUE
            /\ IF ~forkOk
               THEN RunAbort
               ELSE /\ run_pc' = "wait"
                    /\ run_forks' = 1
                    /\ child' = "running"
                    /\ UNCHANGED run_rv
    /\ UNCHANGED <<run_op, run_sig0, run_envres, run_env>>
    /\ RunFrame

\* What waitpid(pid, &status, 0) can report.
WaitReports == {"EINTR", "error", "other pid", "stopped", "terminated"}

\* Mutant of WaitVerdict: a report for another process ends the loop.
WaitVerdict_OtherPidBreaks(report) ==
    IF report = "EINTR" THEN "continue"
    ELSE IF report = "error" THEN "done"
    ELSE IF report = "stopped" THEN "continue"
    ELSE "break"

\* Mutant of WaitVerdict: a stopped child ends the loop.
WaitVerdict_StoppedBreaks(report) ==
    IF report = "EINTR" THEN "continue"
    ELSE IF report = "error" THEN "done"
    ELSE IF report = "other pid" THEN "continue"
    ELSE "break"

\* extension.c:189-200  what one iteration of the wait loop does with the report:
\* reaped < 0 with EINTR: continue; reaped < 0 otherwise: goto done;
\* reaped != pid: continue; WIFSTOPPED: continue; else break.
WaitVerdict(report) ==
    IF report = "EINTR" THEN "continue"
    ELSE IF report = "error" THEN "done"
    ELSE IF report = "other pid" THEN "continue"
    ELSE IF report = "stopped" THEN "continue"
    ELSE "break"

\* extension.c:186-229  one iteration of the wait loop and, when it ends the loop,
\* the rest of the call. The child is reaped when waitpid reports it terminated.
\* status: the child's termination status; probeRes: what evaluating the pid file
\* template gives; exists: access(path) == 0
WaitStep(report, status, probeRes, exists) ==
    LET verdict == WaitVerdict(report)
        left == IF report = "terminated" THEN status ELSE run_status
        queried == ProbeQueried(left, ex_cfg.pid_file_path)
        is_active == IF queried
                     THEN ni_extension_active(ex_cfg.pid_file_path, probeRes, exists)
                     ELSE 0
    IN
    /\ run_pc = "wait"
    /\ run_again' = report
    /\ child' = IF report = "terminated" THEN "reaped" ELSE child
    /\ IF verdict = "continue"
       THEN /\ run_loops < MaxLoops
            /\ run_loops' = run_loops + 1
            /\ UNCHANGED <<run_pc, run_status, run_probes, run_proberes, run_active,
                           run_rv>>
       ELSE IF verdict = "done"
       THEN /\ run_pc' = "done"
            /\ run_rv' = -1
            /\ UNCHANGED <<run_status, run_loops, run_probes, run_proberes, run_active>>
       ELSE /\ run_pc' = "done"
            /\ run_status' = left
            /\ run_probes' = IF queried THEN 1 ELSE 0
            /\ run_proberes' = IF queried THEN <<probeRes>> ELSE <<>>
            /\ run_active' = is_active
            /\ run_rv' = ClassifyExit(run_op, left, ex_cfg.pid_file_path, is_active)
            /\ UNCHANGED run_loops
    /\ UNCHANGED <<ex_cfg, sigchld, run_op, run_sig0, run_envres, run_cmdres, run_env,
                   run_evals, run_forked, run_forks>>
    /\ UNCHANGED <<reach_vars, sysfs_vars, reg_vars>>

\* extension.c:186-199  an iteration of the wait loop that ends in continue
WaitAgain(why) ==
    /\ run_loops < MaxLoops
    /\ WaitStep(why, "none", 0, FALSE)

\* extension.c:190-192  waitpid returns < 0 with errno == EINTR: continue
WaitInterrupted ==
    /\ run_pc = "wait"
    /\ WaitAgain("EINTR")

\* extension.c:196-197  waitpid reports another process: continue
WaitOtherPid ==
    /\ run_pc = "wait"
    /\ WaitAgain("other pid")

\* extension.c:198-199  waitpid reports the child stopped: continue
WaitStopped ==
    /\ run_pc = "wait"
    /\ WaitAgain("stopped")

\* extension.c:190-195  waitpid returns < 0 with another errno: goto done
WaitFailed ==
    /\ run_pc = "wait"
    /\ WaitStep("error", "none", 0, FALSE)

\* extension.c:189-229  waitpid reports the child exited or killed: the loop breaks,
\* the status is classified and the call returns.
\* probeRes: what evaluating the pid file template gives; exists: access(path) == 0
WaitReaped(status, probeRes, exists) ==
    /\ run_pc = "wait"
    /\ WaitStep("terminated", status, probeRes, exists)

ExtNext ==
    \/ IgnoreSigchld
    \/ \E op \in {"start", "stop"} : RunEnter(op)
    \/ \E r \in EvalResults : EnvStep(r)
    \/ \E cmdRes \in EvalResults, forkOk \in BOOLEAN : CommandStep(cmdRes, forkOk)
    \/ WaitInterrupted
    \/ WaitOtherPid
    \/ WaitStopped
    \/ WaitFailed
    \/ \E status \in Statuses, probeRes \in EvalResults, exists \in BOOLEAN :
          WaitReaped(status, probeRes, exists)

(***************************************************************************)
(* src/extension.c: the registry of extensions                             *)
(***************************************************************************)

MaxExt == 2

ExtTypes == {"dhcp", "ibft"}

NI_AF_MASK_IPV4 == "IPV4"
NI_AF_MASK_IPV6 == "IPV6"

\* The bits of an unsigned int mask: the two the code names and another one.
AfBits == {NI_AF_MASK_IPV4, NI_AF_MASK_IPV6, "other"}

\* The address families a caller may pass.
Families == {"AF_UNSPEC", "AF_INET", "AF_INET6", "AF_PACKET"}

\* No ni_extension_list_find call yet, or the list changed since.
NoFind == [none |-> TRUE, type |-> "dhcp", af |-> "AF_UNSPEC", found |-> 0]

\* An empty list.
RegInit ==
    /\ ext_list = <<>>
    /\ ext_made = 0
    /\ ext_find = NoFind

\* extension.c:19-33  calloc, type set, appended behind the last element. The
\* record keeps the number of the call that made it in place of the name.
ni_extension_new(type) ==
    /\ Len(ext_list) < MaxExt
    /\ ext_made' = ext_made + 1
    /\ ext_list' = Append(ext_list, [made |-> ext_made + 1, type |-> type,
                                      supported_af |-> {}])
    /\ ext_find' = NoFind
    /\ UNCHANGED <<reach_vars, sysfs_vars, ext_vars>>

\* The caller of ni_extension_new fills in the address families of the extension
\* it has just made.
SetSupportedAf(bits) ==
    /\ ext_list # <<>>
    /\ ext_list[Len(ext_list)].supported_af = {}
    /\ bits # {}
    /\ ext_list' = [ext_list EXCEPT ![Len(ext_list)].supported_af = bits]
    /\ ext_find' = NoFind
    /\ UNCHANGED ext_made
    /\ UNCHANGED <<reach_vars, sysfs_vars, ext_vars>>

\* extension.c:71-83  the switch on af; a family outside it has no mask
HasMask(af) == af \in {"AF_UNSPEC", "AF_INET", "AF_INET6"}

\* extension.c:71-80  mask = ~0, NI_AF_MASK_IPV4 or NI_AF_MASK_IPV6
AfMask(af) ==
    IF af = "AF_UNSPEC" THEN AfBits
    ELSE IF af = "AF_INET" THEN {NI_AF_MASK_IPV4}
    ELSE {NI_AF_MASK_IPV6}

\* Mutant of ExtMatches: || in place of &&.
ExtMatches_Either(ex, type, mask) ==
    (ex.supported_af \cap mask # {}) \/ ex.type = type

\* extension.c:86  (ex->supported_af & mask) && ex->type == type
ExtMatches(ex, type, mask) ==
    (ex.supported_af \cap mask # {}) /\ ex.type = type

\* extension.c:85-90  the loop from the element at place i: the place of the first
\* element that matches, 0 for NULL
RECURSIVE FindFrom(_, _, _, _)
FindFrom(list, i, type, mask) ==
    IF i > Len(list) THEN 0
    ELSE IF ExtMatches(list[i], type, mask) THEN i
    ELSE FindFrom(list, i + 1, type, mask)

\* extension.c:65-91
ni_extension_list_find(head, type, af) ==
    IF ~HasMask(af) THEN 0 ELSE FindFrom(head, 1, type, AfMask(af))

\* A call of ni_extension_list_find on the list.
ListFind(type, af) ==
    /\ ext_find' = [none |-> FALSE, type |-> type, af |-> af,
                    found |-> ni_extension_list_find(ext_list, type, af)]
    /\ UNCHANGED <<ext_list, ext_made>>
    /\ UNCHANGED <<reach_vars, sysfs_vars, ext_vars>>

RegNext ==
    \/ \E type \in ExtTypes : ni_extension_new(type)
    \/ \E bits \in SUBSET AfBits : SetSupportedAf(bits)
    \/ \E type \in ExtTypes, af \in Families : ListFind(type, af)

(***************************************************************************)
(* Specifications: one per piece, the other pieces at rest                 *)
(***************************************************************************)

ExtAtRest ==
    /\ ExtInit
    /\ ex_cfg = [start_command |-> FALSE, stop_command |-> FALSE,
                 pid_file_path |-> FALSE, nenv |-> 0]
    /\ sigchld = "SIG_DFL"

SysAtRest == SysInit /\ backend = <<>> /\ sys_list = <<>> /\ ni_debug = FALSE

InitReach == ReachInit /\ SysAtRest /\ ExtAtRest /\ RegInit

SpecReach == InitReach /\ [][ReachNext]_vars

InitSysfs == SysInit /\ ReachInit /\ ExtAtRest /\ RegInit

SpecSysfs == InitSysfs /\ [][SysNext]_vars

InitExt == ExtInit /\ ReachInit /\ SysAtRest /\ RegInit

SpecExt == InitExt /\ [][ExtNext]_vars

\* extension.c:187  waitpid(pid, &status, 0) on a child that terminates: the report
\* that the child exited or was killed is eventually delivered.
ChildTerminates ==
    \E status \in Statuses, probeRes \in EvalResults, exists \in BOOLEAN :
        WaitReaped(status, probeRes, exists)

InitRegistry == RegInit /\ ReachInit /\ SysAtRest /\ ExtAtRest

SpecRegistry == InitRegistry /\ [][RegNext]_vars

\* The supervisor with a child that eventually terminates.
SpecExtFair == InitExt /\ [][ExtNext]_vars /\ WF_vars(ChildTerminates)

(***************************************************************************)
(* Claims about client/reachable.c                                         *)
(***************************************************************************)

\* Two calls were made and no event lies between them.
BackToBack ==
    /\ ~prev_call.none
    /\ ~last_call.none
    /\ last_call.events = {}
    /\ last_call.seq = prev_call.seq

C2_Invalidation ==
    (/\ ~prev_call.none
     /\ ~last_call.none
     /\ NI_EVENT_RESOLVER_UPDATED \in last_call.events)
        => (last_call.invalidated /\ last_call.resolver)

(***************************************************************************)
(* Claims about src/sysfs.c                                                *)
(***************************************************************************)

RECURSIVE IsSubseq(_, _)
\* s lists some of the elements of t, in the order t lists them.
IsSubseq(s, t) ==
    IF s = <<>> THEN TRUE
    ELSE IF t = <<>> THEN FALSE
    ELSE IF Head(s) = Head(t) THEN IsSubseq(Tail(s), Tail(t))
    ELSE IsSubseq(s, Tail(t))

IsPrefix(s, t) == Len(s) <= Len(t) /\ SubSeq(t, 1, Len(s)) = s

\* The values of the writes of the latest call that carry the sign op, in order.
Written(op) ==
    LET Has(w) == w.op = op
        ws == SelectSeq(sys_writes, Has)
    IN [i \in 1..Len(ws) |-> ws[i].val]

\* The latest call got past reading the current list.
SysRead == sys_state = "done" /\ sys_read_ok

\* C3: delete and add share no value, delete with unchanged holds the values of
\* current, add with unchanged holds the values of the desired list, and each
\* partition keeps the order of the sequence its elements come from.
C3_Partition ==
    SysRead =>
        /\ Range(sys_delete) \cap Range(sys_add) = {}
        /\ Range(sys_delete) \cup Range(sys_unchanged) = Range(sys_current)
        /\ Range(sys_add) \cup Range(sys_unchanged) = Range(sys_list)
        /\ IsSubseq(sys_delete, sys_current)
        /\ IsSubseq(sys_add, sys_list)
        /\ IsSubseq(sys_unchanged, sys_current) \/ IsSubseq(sys_unchanged, sys_list)

\* C3 witness: a call whose three partitions are all non-empty.
C3_Witness ==
    /\ SysRead
    /\ sys_delete # <<>>
    /\ sys_add # <<>>
    /\ sys_unchanged # <<>>

\* C4: after a call that returned success the kernel's list holds exactly the
\* desired values, also when the call before it aborted part-way.
C4_Converges ==
    (sys_state = "done" /\ sys_rv = 0) => Range(backend) = Range(sys_list)

\* C4 witness: a call aborted after applying a write, and the next call, with the
\* same desired list, wrote and returned success.
C4_Witness ==
    /\ sys_state = "done"
    /\ sys_rv = 0
    /\ sys_writes # <<>>
    /\ sys_prev.state = "done"
    /\ sys_prev.rv = -1
    /\ sys_prev.applied

\* C5: when current and the desired list hold the same values the call returns
\* success and issues no write; a call directly after a successful one with the
\* same desired list issues no write.
C5_NoOp ==
    /\ (SysRead /\ Range(sys_current) = Range(sys_list))
          => (sys_rv = 0 /\ sys_writes = <<>>)
    /\ (sys_state = "done" /\ sys_prev.state = "done" /\ sys_prev.rv = 0)
          => (sys_writes = <<>> /\ (sys_read_ok => sys_rv = 0))

\* C5 witness: a successful call that wrote, directly followed by a call with the
\* same desired list that read the list and wrote nothing.
C5_Witness ==
    /\ SysRead
    /\ sys_prev.state = "done"
    /\ sys_prev.rv = 0
    /\ sys_prev.applied
    /\ sys_current # <<>>
    /\ sys_writes = <<>>

\* C6: no "+" write precedes a "-" write of the same call; the removals follow the
\* delete partition and the additions the add partition; current = [eth0, eth1]
\* and desired = [eth1, eth2] give exactly -eth0, +eth2.
C6_RemovalsFirst ==
    sys_state = "done" =>
        /\ \A i, j \in 1..Len(sys_writes) :
              i < j => ~(sys_writes[i].op = "+" /\ sys_writes[j].op = "-")
        /\ IsPrefix(Written("-"), sys_delete)
        /\ IsPrefix(Written("+"), sys_add)
        /\ Written("+") # <<>> => Written("-") = sys_delete
        /\ (sys_read_ok /\ sys_rv = 0)
              => (Written("-") = sys_delete /\ Written("+") = sys_add)
        /\ (sys_current = <<"eth0", "eth1">> /\ sys_list = <<"eth1", "eth2">>
              /\ sys_rv = 0)
              => sys_writes = <<[op |-> "-", val |-> "eth0"], [op |-> "+", val |-> "eth2"]>>

\* C6 witness: the call of the example, with both writes issued.
C6_Witness ==
    /\ sys_state = "done"
    /\ sys_rv = 0
    /\ sys_current = <<"eth0", "eth1">>
    /\ sys_list = <<"eth1", "eth2">>
    /\ Len(sys_writes) = 2

(***************************************************************************)
(* Claims about src/extension.c                                            *)
(***************************************************************************)

\* The latest call returned.
Returned == run_pc = "done"

\* The latest call left the wait loop with the child's termination status.
Reaped == Returned /\ child = "reaped" /\ run_status \in Statuses

\* C7: ni_extension_start and ni_extension_stop with no command template configured
\* return 0, evaluate no expression, leave the SIGCHLD disposition as it was and
\* create no process.
C7_NoCommand ==
    (Returned /\ ~CommandSet(run_op)) =>
        /\ run_rv = 0
        /\ run_evals = 0
        /\ sigchld = run_sig0
        /\ ~run_forked
        /\ run_forks = 0
        /\ child = "none"

\* C7 witness: a stop without a stop command, entered with SIGCHLD ignored, of an
\* extension that has environment templates.
C7_Witness ==
    /\ Returned
    /\ run_op = "stop"
    /\ ~ex_cfg.stop_command
    /\ ex_cfg.nenv > 0
    /\ run_sig0 = "SIG_IGN"
    /\ run_rv = 0

\* C8: with a child that exited 0 and a pid file template configured, start fails
\* when the probe reports not live, stop fails when it reports live, and the call
\* succeeds exactly when the probe agrees with the operation.
C8_Verification ==
    (Reaped /\ run_status = "exit0" /\ ex_cfg.pid_file_path) =>
        /\ run_probes = 1
        /\ (run_op = "start" /\ run_active = 0) => run_rv = -1
        /\ (run_op = "stop" /\ run_active = 1) => run_rv = -1
        /\ run_rv = 0 <=> (run_op = "start" <=> run_active = 1)
        /\ run_rv \in {0, -1}

\* C8 witness: a start whose command exited 0 while the pid file is not there.
C8_Witness ==
    /\ Reaped
    /\ run_status = "exit0"
    /\ ex_cfg.pid_file_path
    /\ run_op = "start"
    /\ run_active = 0
    /\ run_rv = -1

\* C9: a child that did not exit normally and a child that exited non-zero make the
\* call fail without a query of the probe; a child that exited 0 with no pid file
\* template makes it succeed.
C9_Classification ==
    Reaped =>
        /\ ~WIFEXITED(run_status) => (run_rv = -1 /\ run_probes = 0)
        /\ (WIFEXITED(run_status) /\ WEXITSTATUS(run_status) # 0)
              => (run_rv = -1 /\ run_probes = 0)
        /\ (run_status = "exit0" /\ ~ex_cfg.pid_file_path) => run_rv = 0

\* C9 witness: a child that exited non-zero under an extension with a pid file
\* template.
C9_Witness ==
    /\ Reaped
    /\ run_status = "exit1"
    /\ ex_cfg.pid_file_path
    /\ run_rv = -1

\* An environment template evaluated by the latest call failed or gave several values.
EnvTemplateFailed ==
    \E i \in 1..Len(run_envres) : run_envres[i] = EvalError \/ run_envres[i] > 1

\* The command template was evaluated and failed or gave other than one value.
CommandTemplateFailed ==
    run_cmdres # <<>> /\ (run_cmdres[1] = EvalError \/ run_cmdres[1] # 1)

\* C10: a failing environment or command template makes the call fail with no
\* process created; an environment template that gives no value sets no variable
\* and does not fail the call.
C10_PreSpawn ==
    (run_pc \in {"wait", "done"} /\ CommandSet(run_op)) =>
        /\ (EnvTemplateFailed \/ CommandTemplateFailed)
              => (Returned /\ run_rv = -1 /\ ~run_forked /\ run_forks = 0
                  /\ child = "none")
        /\ \A i \in 1..Len(run_envres) :
              (\E k \in 1..Len(run_env) : run_env[k] = i) <=> run_envres[i] = 1
        /\ ~EnvTemplateFailed
              => (Len(run_envres) = ex_cfg.nenv /\ run_cmdres # <<>>)
        /\ (~EnvTemplateFailed /\ ~CommandTemplateFailed) => run_forked

\* C10 witness: an environment template gave no value, no variable was set, and the
\* child was created.
C10_Witness ==
    /\ run_pc = "wait"
    /\ ex_cfg.nenv > 0
    /\ \E i \in 1..Len(run_envres) : run_envres[i] = 0
    /\ run_env = <<>>
    /\ run_forks = 1

\* The latest call created a child process and has returned.
ReturnedAfterSpawn == Returned /\ run_forks = 1

\* C11 as stated: on every path of __ni_extension_run on which a child process was
\* created, the child has been reaped before the call returns.
C11_AlwaysReaped ==
    ReturnedAfterSpawn => child = "reaped"

\* C11: a call that created a child returns either after waitpid reported the child
\* exited or killed, and then the child is reaped whatever the call returns, or
\* after waitpid failed with an error other than EINTR, and then the call returns
\* failure with the child not reaped.
C11_ReapedUnlessWaitFails ==
    ReturnedAfterSpawn =>
        /\ run_again \in {"terminated", "error"}
        /\ run_again = "terminated" => child = "reaped" /\ run_status \in Statuses
        /\ run_again = "error" => child = "running" /\ run_rv = -1

\* A call that reaped its child and returns failure.
C11_Witness ==
    /\ ReturnedAfterSpawn
    /\ child = "reaped"
    /\ run_rv = -1
    /\ run_loops > 0

\* The latest call asked ni_extension_active and the pid file template did not
\* evaluate to exactly one path.
ProbeTemplateFailed == run_proberes # <<>> /\ run_proberes[1] # 1

\* C14: for start and for stop, when the child exits 0 and the pid file template
\* cannot be evaluated to exactly one path, __ni_extension_run returns failure.
C14_ProbeTemplateFailure ==
    (Reaped /\ run_status = "exit0" /\ ProbeTemplateFailed) => run_rv = -1

\* The reports on which the wait loop goes round again.
ContinueReports == {"EINTR", "other pid", "stopped"}

\* The wait loop has just ended, or is still running, for a sound reason.
WaitLoopExits ==
    /\ ReturnedAfterSpawn =>
           \/ run_again = "terminated" /\ child = "reaped" /\ run_status \in Statuses
           \/ run_again = "error"
    /\ (run_pc = "wait" /\ run_loops > 0) => run_again \in ContinueReports

\* An interrupted wait, a report for another process and a stopped child each leave
\* the call in the loop, with nothing classified.
WaitLoopContinues ==
    (run_pc = "wait" /\ run_again' \in ContinueReports) =>
        /\ run_pc' = "wait"
        /\ UNCHANGED <<child, run_status, run_rv, run_probes>>

\* C16: the wait loop of __ni_extension_run ends only when waitpid reports the
\* spawned child exited or killed, or fails with an error other than EINTR; an
\* interrupted wait, a report for another process and a stopped child continue the
\* loop; and with a child that eventually terminates and finitely many
\* interruptions, a call that waits eventually returns.
C16_WaitLoop ==
    /\ []WaitLoopExits
    /\ [][WaitLoopContinues]_vars
    /\ (run_pc = "wait") ~> Returned

\* A call that returned after the loop went round MaxLoops times.
C16_Witness ==
    /\ ReturnedAfterSpawn
    /\ run_loops = MaxLoops
    /\ run_again = "terminated"

\* The places of the list whose extension has the type asked for and a supported
\* family among those af stands for.
Candidates(type, af) ==
    {i \in 1..Len(ext_list) :
        /\ ext_list[i].type = type
        /\ \/ af = "AF_UNSPEC" /\ ext_list[i].supported_af # {}
           \/ af = "AF_INET" /\ NI_AF_MASK_IPV4 \in ext_list[i].supported_af
           \/ af = "AF_INET6" /\ NI_AF_MASK_IPV6 \in ext_list[i].supported_af}

\* C15: the list holds the extensions in the order ni_extension_new made them, and
\* ni_extension_list_find returns the first one in that order whose type is the
\* one asked for and whose supported families meet the mask of af; it returns none
\* when no extension matches or af is another family.
C15_Registry ==
    /\ \A i \in 1..Len(ext_list) : ext_list[i].made = i
    /\ ~ext_find.none =>
          LET c == Candidates(ext_find.type, ext_find.af) IN
          IF c = {}
          THEN ext_find.found = 0
          ELSE /\ ext_find.found \in c
               /\ \A i \in c : ext_find.found <= i

\* A find that passed over the first extension and returned the second.
C15_Witness ==
    /\ ~ext_find.none
    /\ ext_find.found = 2
    /\ ext_list[1].type = ext_find.type
    /\ ext_find.af = "AF_INET6"

\* The latest call got past the skip test.
Evaluated == ~last_call.none /\ ~last_call.skipped

\* C12: ni_fsm_require_check_reachable returns FALSE whenever the resolver fails and
\* whenever the prober fails; as long as no resolution has succeeded, every call
\* has returned FALSE and the validity flag is not set.
C12_FailClosed ==
    /\ (Evaluated /\ last_call.resolver /\ ~last_call.res_ok) =>
           ~last_call.ret /\ ~last_call.prober /\ ~address_valid
    /\ (Evaluated /\ last_call.prober /\ ~last_call.probe_ok) => ~last_call.ret
    /\ address = 0 => ~address_valid /\ ~last_call.ret /\ ~prev_call.ret

\* Two evaluations in a row whose resolution failed, with events before each.
C12_Witness ==
    /\ Evaluated
    /\ last_call.resolver /\ ~last_call.res_ok
    /\ ~prev_call.none /\ prev_call.resolver /\ ~prev_call.res_ok
    /\ last_call.events # {}
    /\ address = 0

\* A step that is a call of ni_fsm_require_check_reachable.
CallStep == event_seq' = event_seq /\ destroys' = destroys

\* What C17 says of one call.
MarkerStep ==
    CallStep =>
        IF last_call'.skipped
        THEN /\ UNCHANGED <<req_event_seq, address_valid, address>>
             /\ ~last_call'.resolver /\ ~last_call'.prober /\ ~last_call'.ret
        ELSE req_event_seq' = event_seq

\* C17: after every call that is not skipped the marker equals the global event
\* sequence at the time of the call, whatever the call returns; a skipped call
\* leaves the marker, the validity flag and the cached address as they were, calls
\* neither the resolver nor the prober and returns FALSE; the marker never
\* decreases.
C17_Marker ==
    /\ [](Evaluated => req_event_seq = last_call.seq)
    /\ [][MarkerStep]_vars
    /\ [][req_event_seq' >= req_event_seq]_vars

\* An evaluation that returned FALSE and moved the marker, after a skipped call.
C17_Witness ==
    /\ Evaluated
    /\ ~last_call.ret
    /\ last_call.marker < req_event_seq
    /\ prev_call.skipped

\* C18: ni_ifworker_reachability_check_destroy releases the hostname and the check
\* once and leaves req->user_data NULL; however often it is called on the same
\* requirement, each is released once.
C18_Destroy ==
    /\ destroys = 0 => user_data = "check" /\ hostname_frees = 0 /\ check_frees = 0
    /\ destroys > 0 => user_data = "NULL" /\ hostname_frees = 1 /\ check_frees = 1

\* A repeated destroy call, after the requirement was evaluated.
C18_Witness ==
    /\ destroys = MaxDestroy
    /\ check_frees = 1
    /\ ~last_call.none

\* C19: whenever a call returns TRUE the validity flag is TRUE and the address the
\* prober was handed was resolved under the resolver configuration in force at
\* the call, that is, in the same call or in an earlier call made after the most
\* recent resolver-updated event.
C19_NoStaleAddress ==
    (~last_call.none /\ last_call.ret) =>
        /\ address_valid
        /\ last_call.prober
        /\ last_call.addr = last_call.gen
        /\ address = last_call.addr

\* A call that returned TRUE on the cached address, after a resolver update that an
\* earlier call had answered with a new resolution.
C19_Witness ==
    /\ ~last_call.none /\ last_call.ret
    /\ ~last_call.resolver
    /\ last_event_seq[NI_EVENT_RESOLVER_UPDATED] > 0
    /\ last_call.addr > 1

\* The call found a cached address it could use.
ValidCached(call) == call.valid /\ ~call.invalidated

\* C20 as stated: after an address-acquired event that follows the last evaluation,
\* the next call is not skipped, runs the resolver when there is no valid cached
\* address, and runs the prober.
C20_Recheck ==
    last_call.due =>
        /\ ~last_call.skipped
        /\ ~ValidCached(last_call) => last_call.resolver
        /\ last_call.prober

\* C20: after an address-acquired event that follows the last evaluation, the next
\* call is not skipped; it runs the resolver exactly when there is no valid cached
\* address, and runs the prober unless that resolution failed.
C20_RecheckAmended ==
    last_call.due =>
        /\ ~last_call.skipped
        /\ last_call.resolver <=> ~ValidCached(last_call)
        /\ last_call.prober <=> ~(last_call.resolver /\ ~last_call.res_ok)

\* A re-check after a skipped call and an address-acquired event, which resolved and
\* probed.
C20_Witness ==
    /\ last_call.due
    /\ prev_call.skipped
    /\ last_call.resolver /\ last_call.res_ok
    /\ last_call.prober

\* C13: when reading the current list fails, ni_sysfs_bonding_set_list_attr returns
\* failure and issues no write; when a remove or add write fails, it returns
\* failure, the failing write is the last one it issues, and no write takes back
\* a write already applied: the kernel keeps what the earlier writes did.
C13_Failure ==
    /\ (sys_state = "done" /\ ~sys_read_ok) => sys_rv = -1 /\ sys_writes = <<>>
    /\ (SysRead /\ sys_failed > 0) =>
           /\ sys_rv = -1
           /\ Len(sys_writes) = sys_failed
           /\ IsPrefix(sys_writes, DeleteLoop(sys_delete) \o AddLoop(sys_add))
           /\ \A i, j \in 1..Len(sys_writes) :
                  sys_writes[i].val = sys_writes[j].val =>
                      sys_writes[i].op = sys_writes[j].op
           /\ backend = BackendAfter(sys_current,
                                     SubSeq(sys_writes, 1, sys_failed - 1))

\* A call whose second write failed after a removal was applied, with a write
\* still to come.
C13_Witness ==
    /\ SysRead
    /\ sys_failed = 2
    /\ sys_writes[1].op = "-"
    /\ Len(sys_delete) + Len(sys_add) > 2
    /\ backend # sys_current

\* The strings the latest call logged under a label, in order.
Logged(label) ==
    LET Has(r) == r.label = label
        rs == SelectSeq(sys_trace, Has)
    IN [i \in 1..Len(rs) |-> rs[i].val]

\* The latest call ran the logging loops, to their end or to the death of the
\* process: tracing is on and there was something to remove or to add.
Traced ==
    /\ sys_state \in {"done", "crashed"}
    /\ sys_read_ok
    /\ ni_debug
    /\ ~(sys_delete = <<>> /\ sys_add = <<>>)

\* C21: with ifconfig tracing enabled, every element the call reads while logging
\* lies within the count of the array it is read from, and the strings logged as
\* "leave" are the elements of the unchanged partition.
C21_TraceInBounds ==
    Traced =>
        /\ \A k \in 1..Len(sys_trace) : sys_trace[k].index <= sys_trace[k].count
        /\ Logged("leave") = sys_unchanged

====
